---- MODULE Spec2Model ----
(***************************************************************************)
(* Task queue core of whisperTrans: the task records and the               *)
(* translation_tasks stream kept in Redis (core/task_manager.py), the API  *)
(* calls that create, cancel and retry tasks (api/routes/tasks.py), and    *)
(* the worker main loop with its pool of _process_task threads             *)
(* (workers/worker.py, core/translation_service.py).                       *)
(*                                                                         *)
(* Every Redis command is one atomic step; a Python function that issues   *)
(* several commands is a sequence of steps that interleave with the steps  *)
(* of the other processes.                                                 *)
(***************************************************************************)
EXTENDS Integers, Sequences, FiniteSets, TLC

\* ---------------------------------------------------------------- bounds
MaxTasks == 1
MaxEntries == 2
MaxRetryEntries == 3
MaxCancels == 1
MaxAppendFaults == 2
MaxResultFiles == 2
MaxClock == 2
cleanup_interval == 1

\* settings.task_retry_limit and settings.worker_max_threads, as configured
\* for the model (TASK_RETRY_LIMIT, WORKER_MAX_THREADS)
task_retry_limit == 1
worker_max_threads == 1

\* count of the xpending_range call of claim_orphaned_tasks (100 in the code),
\* scaled as the stream is
xpending_count == 1

\* settings.worker_memory_limit (percent)
worker_memory_limit == 90

Workers == {"w1", "w2"}
ApiSlots == {"a1", "a2"}
TaskIds == 1..MaxTasks
EntryIds == 1..MaxRetryEntries
\* The calls that write a task record after reading it
Writers == {"worker", "cancel_task", "retry_task", "claim_orphaned_tasks"}

\* ------------------------------------------------------------ TaskStatus
PENDING == "pending"
PROCESSING == "processing"
COMPLETED == "completed"
FAILED == "failed"
CANCELLED == "cancelled"
RETRY == "retry"
TaskStatus == {PENDING, PROCESSING, COMPLETED, FAILED, CANCELLED, RETRY}
Terminal == {COMPLETED, FAILED, CANCELLED}

\* Python None, the absent hash, and progress in tenths (0.1 = 1, 1.0 = 10)
None == "None"
NoTask == [status |-> "absent"]
NoProgress == -1
ProgressValues == {0, 1, 2, 8, 10}

LANGUAGE_MAP == {"en", "zh", "zh-CN", "zh-TW", "ja", "ko", "fr", "de", "es"}
RequestLanguages == {"en", "xx"}

\* Texts of the exceptions the speech-to-text engine raises (str(e))
ExcTexts == {"", "stt failed"}
StoreFailedText == "Failed to store results"
ErrorMessages == {None, "", "stt failed", StoreFailedText}

\* ------------------------------------------------------ TranslationTask
TranslationTask(status, worker, err, rc, progress) ==
    [status |-> status, assigned_worker |-> worker, error_message |-> err,
     retry_count |-> rc, progress |-> progress]

NewTaskRetried == TranslationTask(PENDING, None, None, 1, 0)
NewTask == TranslationTask(PENDING, None, None, 0, 0)

\* serialize_for_redis: None is stored as the empty string
serialize_for_redis(t) ==
    [t EXCEPT !.assigned_worker = IF @ = None THEN "" ELSE @,
              !.error_message = IF @ = None THEN "" ELSE @]

\* The assignments of update_task_status between its get_task and its hset
ApplyStatus(t, status, worker, err, progress) ==
    [t EXCEPT !.status = status,
              !.assigned_worker = IF worker # None /\ worker # "" THEN worker ELSE @,
              !.error_message = IF err # None /\ err # "" THEN err ELSE @,
              !.progress = IF progress # NoProgress THEN progress ELSE @]

\* The assignments of retry_task between its checks and its hset
RetriedNoIncrement(t) ==
    [t EXCEPT !.status = PENDING, !.error_message = None, !.progress = 0]
Retried(t) ==
    [t EXCEPT !.retry_count = @ + 1, !.status = PENDING,
              !.error_message = None, !.progress = 0]

\* The checks of retry_task on the record it has read
BelowRetryLimitInclusive(t) == t.retry_count <= task_retry_limit
BelowRetryLimit(t) == t.retry_count < task_retry_limit

RetryAllowedAnyStatus(t) == t # NoTask /\ BelowRetryLimit(t)
RetryAllowed(t) ==
    /\ t # NoTask
    /\ t.status = FAILED
    /\ BelowRetryLimit(t)

VARIABLES
    task,           \* task:{id} hashes, NoTask where the key is absent
    nextId,         \* number of task ids handed out so far
    appendFaults,   \* stream appends that are still going to fail
    stream,         \* translation_tasks: the task_id of each entry, by entry id
    lastDelivered,  \* last entry delivered to the translation_workers group
    pel,            \* pending entries list: the consumer holding each entry
    idle,           \* the entry's idle time exceeds worker_timeout
    results,        \* results:{id} keys present in the fast store
    api,            \* API calls in flight
    response,       \* the last response an API call has returned
    cancelled,      \* tasks a cancel_task has succeeded on while PENDING or PROCESSING
    ncancel,        \* cancel_task calls that have found their task
    orphanCall,     \* the claim_orphaned_tasks call in progress
    resultStore,    \* the two tiers of stored results, as the service calls see them
    cleanupCall,    \* the cleanup_old_tasks call in progress
    consumers,      \* translation_workers: each consumer, where the group is observed
    consumerGc,     \* the clean_dead_consumers call in progress
    clock,          \* the wall clock: datetime.now(UTC), time.time()
    updated_at,     \* the updated_at stored in each task record
    now,            \* the datetime.now(UTC) each writer has put in the record it holds
    codec,          \* a task object, the hash written from it and the object read back
    periodic,       \* last_cleanup_time and the _periodic_cleanup call in progress
    health,         \* what the last _check_health of each worker read, where observed
    wpc,            \* position of each worker in run()
    running,        \* TranslationWorker.running
    hb,             \* worker:{id} hash, its status field
    sentinel,       \* worker:{id}:heartbeat, the key set with ex=60, present
    batch,          \* claim_pending_tasks: entries read and not yet examined
    wsnap,          \* claim_pending_tasks: task read by update_task_status
    claimed,        \* pending_tasks returned by claim_pending_tasks
    ex              \* the _process_task call of each entry

vars == <<task, nextId, appendFaults, stream, lastDelivered, pel, idle, results, api, response,
          cancelled, ncancel, orphanCall, resultStore, health, cleanupCall, consumers, consumerGc,
          clock, updated_at, now, codec, periodic,
          wpc, running, hb, sentinel, batch, wsnap, claimed, ex>>

storeVars == <<task, nextId, appendFaults, stream, lastDelivered, pel, idle, results>>
workerVars == <<wpc, running, hb, sentinel, batch, wsnap, claimed>>
apiVars == <<api, response, cancelled, ncancel>>
clockVars == <<clock, updated_at, now>>

\* No record held by a writer
NoStamp == [t |-> 0, at |-> 0]

\* clean_dead_consumers: no call in progress
NoConsumerGc == [pc |-> "none", todo |-> <<>>]

\* ------------------------------------------------------------------ Init
IdleCall == [op |-> "none", pc |-> "ret", t |-> 0, snap |-> NoTask]
Call(op, pc, t, snap) == [op |-> op, pc |-> pc, t |-> t, snap |-> snap]
NoResponse == [op |-> "none", t |-> 0, ret |-> "none", code |-> 0]
Response(op, t, ret, code) == [op |-> op, t |-> t, ret |-> ret, code |-> code]
NoExec == [pc |-> "none", w |-> None, t |-> 0, snap |-> NoTask,
           exc |-> None, engine |-> "none", packed |-> "none", outcome |-> "none"]
NoCleanupCall == [pc |-> "none", start |-> <<>>, todo |-> <<>>, snap |-> NoTask, old |-> FALSE,
                  cleaned_count |-> 0, returned |-> 0]
NoReading == [memory_usage |-> 0, ping |-> TRUE]
\* No results:{id} key, no task_{id}_*.json file, no call made yet
NoResults == [fast |-> [t \in TaskIds |-> None], files |-> [t \in TaskIds |-> <<>>],
              stored |-> [t \in TaskIds |-> None], got |-> "none"]
NoOrphanCall == [pc |-> "none", w |-> None, todo |-> <<>>, snap |-> NoTask, tasks |-> <<>>]
Returned(outcome) == [NoExec EXCEPT !.pc = "done", !.outcome = outcome]

Init ==
    /\ task = [t \in TaskIds |-> NoTask]
    /\ nextId = 0
    /\ appendFaults = 0
    /\ stream = <<>>
    /\ lastDelivered = 0
    /\ pel = [e \in EntryIds |-> None]
    /\ idle = [e \in EntryIds |-> FALSE]
    /\ results = [t \in TaskIds |-> FALSE]
    /\ api = [a \in ApiSlots |-> IdleCall]
    /\ response = NoResponse
    /\ cancelled = {}
    /\ ncancel = 0
    /\ orphanCall = NoOrphanCall
    /\ resultStore = NoResults
    /\ cleanupCall = NoCleanupCall
    /\ consumers = [w \in Workers |-> "absent"]
    /\ consumerGc = NoConsumerGc
    /\ clock = 0
    /\ updated_at = [t \in TaskIds |-> 0]
    /\ now = [x \in Writers |-> NoStamp]
    /\ codec = [T |-> NoTask, hash |-> NoTask, read |-> NoTask]
    /\ periodic = [last_cleanup_time |-> 0, current_time |-> 0, ping |-> TRUE, outcome |-> "none"]
    /\ health = [w \in Workers |-> NoReading]
    /\ wpc = [w \in Workers |-> "init"]
    /\ running = [w \in Workers |-> FALSE]
    /\ hb = [w \in Workers |-> "none"]
    /\ sentinel = [w \in Workers |-> FALSE]
    /\ batch = [w \in Workers |-> <<>>]
    /\ wsnap = [w \in Workers |-> NoTask]
    /\ claimed = [w \in Workers |-> <<>>]
    /\ ex = [e \in EntryIds |-> NoExec]

\* ------------------------------------------------- Redis stream commands
\* xadd calls still to come from the API calls in flight
AppendsInFlight ==
    Cardinality({a \in ApiSlots : api[a].pc \in {"create_xadd", "retry_hset", "retry_xadd"}})
HasRoom(cap) == Len(stream) + AppendsInFlight < cap
StreamHasRoom == HasRoom(MaxEntries)

\* get_task: the record as read back from the hash
get_task(t) == task[t]

\* xack: the entry leaves the pending entries list
xack(e) == [pel EXCEPT ![e] = None]

\* ------------------------------------------------------------- API calls
\* A request handler is free; the handlers are interchangeable, so the
\* second takes a request only while the first is busy
Free(a) ==
    /\ api[a].pc = "ret"
    /\ a = "a2" => api["a1"].pc # "ret"

\* create_task: validation, then hset of the PENDING record (pc: where the
\* call stands, "ret" for a call whose _periodic_cleanup is not followed)
create_task_hset_at(a, pc) ==
    /\ IF pc = "ret" THEN Free(a) ELSE api[a].pc = pc
    /\ \E src \in RequestLanguages, tgt \in RequestLanguages :
        IF src \in LANGUAGE_MAP /\ tgt \in LANGUAGE_MAP
        THEN /\ nextId < MaxTasks
             /\ StreamHasRoom
             /\ nextId' = nextId + 1
             /\ task' = [task EXCEPT ![nextId + 1] = serialize_for_redis(NewTask)]
             /\ api' = [api EXCEPT ![a] = Call("create", "create_xadd", nextId + 1, NoTask)]
             /\ response' = response
        ELSE /\ response' = Response("create", 0, "ValueError", 500)
             /\ UNCHANGED <<task, nextId, api>>
    /\ UNCHANGED <<appendFaults, stream, lastDelivered, pel, idle, results, cancelled, ncancel, workerVars, ex>>
    /\ UNCHANGED <<orphanCall, resultStore, health, cleanupCall, consumers, consumerGc, clockVars, codec, periodic>>

create_task_hset(a) == create_task_hset_at(a, "ret")

\* create_task: xadd of the stream entry; return task_id
create_task_xadd(a) ==
    /\ api[a].pc = "create_xadd"
    /\ appendFaults = 0
    /\ stream' = Append(stream, api[a].t)
    /\ response' = Response("create", api[a].t, "task_id", 200)
    /\ api' = [api EXCEPT ![a] = IdleCall]
    /\ UNCHANGED <<task, nextId, appendFaults, lastDelivered, pel, idle, results, cancelled, ncancel, workerVars, ex>>
    /\ UNCHANGED <<orphanCall, resultStore, health, cleanupCall, consumers, consumerGc, clockVars, codec, periodic>>

\* create_task: redis_client.xadd raises, and so does create_task
create_task_xadd_raises(a) ==
    /\ api[a].pc = "create_xadd"
    /\ appendFaults > 0
    /\ appendFaults' = appendFaults - 1
    /\ response' = Response("create", 0, "raise", 500)
    /\ api' = [api EXCEPT ![a] = IdleCall]
    /\ UNCHANGED <<task, nextId, stream, lastDelivered, pel, idle, results, cancelled, ncancel,
                   workerVars, ex>>
    /\ UNCHANGED <<orphanCall, resultStore, health, cleanupCall, consumers, consumerGc, clockVars, codec, periodic>>

\* The stream becomes unreachable for one more append
stream_outage ==
    /\ appendFaults < MaxAppendFaults
    /\ appendFaults' = appendFaults + 1
    /\ UNCHANGED <<task, nextId, stream, lastDelivered, pel, idle, results, apiVars, workerVars, ex>>
    /\ UNCHANGED <<orphanCall, resultStore, health, cleanupCall, consumers, consumerGc, clockVars, codec, periodic>>

\* cancel_task -> update_task_status(CANCELLED): get_task
cancel_task_get(a) ==
    /\ Free(a)
    /\ \E t \in TaskIds :
        IF get_task(t) = NoTask
        THEN /\ response' = Response("cancel", t, "False", 404)
             /\ UNCHANGED <<api, ncancel>>
        ELSE /\ ncancel < MaxCancels
             /\ ncancel' = ncancel + 1
             /\ response' = response
             /\ api' = [api EXCEPT ![a] = Call("cancel", "cancel_hset", t, get_task(t))]
    /\ UNCHANGED <<storeVars, cancelled, workerVars, ex>>
    /\ UNCHANGED <<orphanCall, resultStore, health, cleanupCall, consumers, consumerGc, clockVars, codec, periodic>>

\* cancel_task -> update_task_status(CANCELLED): hset of the whole record
cancel_task_hset(a) ==
    /\ api[a].pc = "cancel_hset"
    /\ task' = [task EXCEPT ![api[a].t] =
            serialize_for_redis(ApplyStatus(api[a].snap, CANCELLED, None, None, NoProgress))]
    /\ response' = Response("cancel", api[a].t, "True", 200)
    /\ cancelled' = IF api[a].snap.status \in {PENDING, PROCESSING}
                    THEN cancelled \cup {api[a].t} ELSE cancelled
    /\ api' = [api EXCEPT ![a] = IdleCall]
    /\ UNCHANGED <<nextId, appendFaults, stream, lastDelivered, pel, idle, results, ncancel, workerVars, ex>>
    /\ UNCHANGED <<orphanCall, resultStore, health, cleanupCall, consumers, consumerGc, clockVars, codec, periodic>>

\* retry_task: get_task and the three checks
retry_task_get_within(a, cap) ==
    /\ Free(a)
    /\ \E t \in TaskIds :
        IF RetryAllowed(get_task(t))
        THEN /\ HasRoom(cap)
             /\ api' = [api EXCEPT ![a] = Call("retry", "retry_hset", t, get_task(t))]
             /\ response' = response
        ELSE /\ response' = Response("retry", t, "False", 400)
             /\ api' = api
    /\ UNCHANGED <<storeVars, cancelled, ncancel, workerVars, ex>>
    /\ UNCHANGED <<orphanCall, resultStore, health, cleanupCall, consumers, consumerGc, clockVars, codec, periodic>>

retry_task_get(a) == retry_task_get_within(a, MaxEntries)

\* retry_task: hset of the reset record
retry_task_hset(a) ==
    /\ api[a].pc = "retry_hset"
    /\ task' = [task EXCEPT ![api[a].t] = serialize_for_redis(Retried(api[a].snap))]
    /\ api' = [api EXCEPT ![a].pc = "retry_xadd", ![a].snap = NoTask]
    /\ UNCHANGED <<nextId, appendFaults, stream, lastDelivered, pel, idle, results, response, cancelled,
                   ncancel, workerVars, ex>>
    /\ UNCHANGED <<orphanCall, resultStore, health, cleanupCall, consumers, consumerGc, clockVars, codec, periodic>>

\* retry_task: xadd of a fresh entry; return True
retry_task_xadd(a) ==
    /\ api[a].pc = "retry_xadd"
    /\ appendFaults = 0
    /\ stream' = Append(stream, api[a].t)
    /\ response' = Response("retry", api[a].t, "True", 200)
    /\ api' = [api EXCEPT ![a] = IdleCall]
    /\ UNCHANGED <<task, nextId, appendFaults, lastDelivered, pel, idle, results, cancelled, ncancel, workerVars, ex>>
    /\ UNCHANGED <<orphanCall, resultStore, health, cleanupCall, consumers, consumerGc, clockVars, codec, periodic>>

ApiStep ==
    \E a \in ApiSlots :
        \/ create_task_hset(a)
        \/ create_task_xadd(a)
        \/ cancel_task_get(a)
        \/ cancel_task_hset(a)
        \/ retry_task_get(a)
        \/ retry_task_hset(a)
        \/ retry_task_xadd(a)

\* The steps by which a call that has begun runs on to its return
ApiContinue(a) ==
    \/ create_task_xadd(a)
    \/ cancel_task_hset(a)
    \/ retry_task_hset(a)
    \/ retry_task_xadd(a)

\* ------------------------------------------------------ worker main loop
Alive(w) == wpc[w] \notin {"init", "stopped", "crashed"}

\* Entries an xreadgroup with ">" and count = n delivers
NewEntriesUncounted(n) == [i \in 1..(Len(stream) - lastDelivered) |-> lastDelivered + i]
NewEntries(n) ==
    LET last == IF Len(stream) < lastDelivered + n THEN Len(stream) ELSE lastDelivered + n
    IN  [i \in 1..(last - lastDelivered) |-> lastDelivered + i]
SeqRange(s) == {s[i] : i \in 1..Len(s)}

\* run(): self.running = True
run(w) ==
    /\ wpc[w] = "init"
    /\ wpc' = [wpc EXCEPT ![w] = "loop"]
    /\ running' = [running EXCEPT ![w] = TRUE]
    /\ UNCHANGED <<storeVars, apiVars, hb, sentinel, batch, wsnap, claimed, ex>>
    /\ UNCHANGED <<orphanCall, resultStore, health, cleanupCall, consumers, consumerGc, clockVars, codec, periodic>>

\* _send_heartbeat(): hset of worker:{id}; the set of worker:{id}:heartbeat
\* with ex=60 is written beside each use
send_heartbeat(w) == [hb EXCEPT ![w] = IF running[w] THEN "active" ELSE "stopping"]

\* TranslationWorker._claim_orphaned_tasks(): reads the pending entries list,
\* claims nothing and returns the empty list
worker_claim_orphaned_tasks(w) == <<>>

\* The head of one iteration of run(): while self.running, heartbeat, health
\* gate (sleep(10) and continue when unhealthy), orphan sweep, submission of
\* the orphaned tasks
\* _check_health(): is_system_healthy() and redis_client.health_check()
check_health_inclusive(memory_usage, ping) == memory_usage <= worker_memory_limit /\ ping
check_health(memory_usage, ping) == memory_usage < worker_memory_limit /\ ping

loop_head_gated(w, observed) ==
    /\ wpc[w] = "loop"
    /\ IF ~running[w]
       THEN /\ wpc' = [wpc EXCEPT ![w] = "shutdown"]
            /\ UNCHANGED <<hb, sentinel, claimed, health>>
       ELSE /\ hb' = send_heartbeat(w)
            /\ sentinel' = [sentinel EXCEPT ![w] = TRUE]
            /\ \E memory_usage \in {worker_memory_limit - 1, worker_memory_limit,
                                     worker_memory_limit + 1}, ping \in BOOLEAN :
                /\ health' = IF observed
                             THEN [health EXCEPT ![w] = [memory_usage |-> memory_usage,
                                                         ping |-> ping]]
                             ELSE health
                /\ IF ~check_health(memory_usage, ping)
                   THEN /\ wpc' = wpc
                        /\ claimed' = claimed
                   ELSE /\ claimed' = [claimed EXCEPT ![w] = worker_claim_orphaned_tasks(w)]
                        /\ wpc' = [wpc EXCEPT ![w] =
                               IF worker_claim_orphaned_tasks(w) = <<>> THEN "claim"
                               ELSE "submit_orphaned"]
    /\ UNCHANGED <<storeVars, apiVars, running, batch, wsnap, ex>>
    /\ UNCHANGED <<orphanCall, resultStore, cleanupCall, consumers, consumerGc, clockVars, codec, periodic>>

loop_head(w) == loop_head_gated(w, FALSE)
loop_head_observed(w) == loop_head_gated(w, TRUE)

\* Where run() continues once claim_pending_tasks has examined its messages:
\* with no task to submit there is no future to wait for
AfterClaim(left, tasks) ==
    IF left # <<>> THEN "claim_loop"
    ELSE IF tasks # <<>> THEN "submit"
    ELSE "loop"

\* if self.running: claim_pending_tasks(...): xreadgroup(">", count=max_workers).
\* The test of self.running comes before the call, and a signal can arrive
\* between the two: the value tested is the present one or the TRUE that the
\* head of the iteration saw. The read makes w a consumer of the group and
\* restarts its idle time (observed: the group's consumers are followed)
claim_xreadgroup_group(w, observed) ==
    /\ wpc[w] = "claim"
    /\ \E tested \in {running[w], TRUE} :
       IF tested
       THEN /\ batch' = [batch EXCEPT ![w] = NewEntries(worker_max_threads)]
            /\ lastDelivered' = lastDelivered + Len(NewEntries(worker_max_threads))
            /\ pel' = [e \in EntryIds |->
                          IF e \in SeqRange(NewEntries(worker_max_threads)) THEN w ELSE pel[e]]
            /\ idle' = [e \in EntryIds |->
                          IF e \in SeqRange(NewEntries(worker_max_threads)) THEN FALSE ELSE idle[e]]
            /\ consumers' = IF observed THEN [consumers EXCEPT ![w] = "active"] ELSE consumers
            /\ wpc' = [wpc EXCEPT ![w] = AfterClaim(NewEntries(worker_max_threads), <<>>)]
       ELSE /\ wpc' = [wpc EXCEPT ![w] = "loop"]
            /\ UNCHANGED <<batch, lastDelivered, pel, idle, consumers>>
    /\ UNCHANGED <<task, nextId, appendFaults, stream, results, apiVars, running, hb, sentinel, wsnap, claimed, ex>>
    /\ UNCHANGED <<orphanCall, resultStore, health, cleanupCall, consumerGc, clockVars, codec, periodic>>

claim_xreadgroup(w) == claim_xreadgroup_group(w, FALSE)
claim_xreadgroup_observed(w) == claim_xreadgroup_group(w, TRUE)

\* claim_pending_tasks: get_task of the next message, kept only when PENDING
ClaimKeepsAnyStatus(t) == t # NoTask
ClaimKeeps(t) == t # NoTask /\ t.status = PENDING

claim_get_task(w) ==
    /\ wpc[w] = "claim_loop"
    /\ IF ClaimKeeps(get_task(stream[Head(batch[w])]))
       THEN /\ wpc' = [wpc EXCEPT ![w] = "claim_update_get"]
            /\ batch' = batch
       ELSE /\ wpc' = [wpc EXCEPT ![w] = AfterClaim(Tail(batch[w]), claimed[w])]
            /\ batch' = [batch EXCEPT ![w] = Tail(@)]
    /\ UNCHANGED <<storeVars, apiVars, running, hb, sentinel, wsnap, claimed, ex>>
    /\ UNCHANGED <<orphanCall, resultStore, health, cleanupCall, consumers, consumerGc, clockVars, codec, periodic>>

\* claim_pending_tasks -> update_task_status(PROCESSING, worker, 0.1): get_task
claim_update_get(w) ==
    /\ wpc[w] = "claim_update_get"
    /\ wsnap' = [wsnap EXCEPT ![w] = get_task(stream[Head(batch[w])])]
    /\ wpc' = [wpc EXCEPT ![w] = "claim_update_hset"]
    /\ UNCHANGED <<storeVars, apiVars, running, hb, sentinel, batch, claimed, ex>>
    /\ UNCHANGED <<orphanCall, resultStore, health, cleanupCall, consumers, consumerGc, clockVars, codec, periodic>>

\* claim_pending_tasks -> update_task_status: hset, then tasks.append
claim_update_hset(w) ==
    /\ wpc[w] = "claim_update_hset"
    /\ task' = IF wsnap[w] = NoTask THEN task
               ELSE [task EXCEPT ![stream[Head(batch[w])]] =
                        serialize_for_redis(ApplyStatus(wsnap[w], PROCESSING, w, None, 1))]
    /\ claimed' = [claimed EXCEPT ![w] = Append(@, Head(batch[w]))]
    /\ batch' = [batch EXCEPT ![w] = Tail(@)]
    /\ wsnap' = [wsnap EXCEPT ![w] = NoTask]
    /\ wpc' = [wpc EXCEPT ![w] = AfterClaim(Tail(batch[w]), <<Head(batch[w])>>)]
    /\ UNCHANGED <<nextId, appendFaults, stream, lastDelivered, pel, idle, results, apiVars, running, hb, sentinel, ex>>
    /\ UNCHANGED <<orphanCall, resultStore, health, cleanupCall, consumers, consumerGc, clockVars, codec, periodic>>

\* for message_id, task in pending_tasks: break when not running, else
\* executor.submit(self._process_task, task.task_id, message_id)
submit(w) ==
    /\ wpc[w] = "submit"
    /\ IF ~running[w]
       THEN /\ wpc' = [wpc EXCEPT ![w] = "wait"]
            /\ claimed' = [claimed EXCEPT ![w] = <<>>]
            /\ ex' = ex
       ELSE /\ wpc' = [wpc EXCEPT ![w] = IF Tail(claimed[w]) = <<>> THEN "wait" ELSE "submit"]
            /\ claimed' = [claimed EXCEPT ![w] = Tail(@)]
            /\ ex' = [ex EXCEPT ![Head(claimed[w])] =
                         [NoExec EXCEPT !.pc = "get", !.w = w,
                                        !.t = stream[Head(claimed[w])]]]
    /\ UNCHANGED <<storeVars, apiVars, running, hb, sentinel, batch, wsnap>>
    /\ UNCHANGED <<orphanCall, resultStore, health, cleanupCall, consumers, consumerGc, clockVars, codec, periodic>>

\* for future in as_completed(futures): ...; time.sleep(1)
InFlight(w) == {e \in EntryIds : ex[e].w = w /\ ex[e].pc # "done"}

wait_futures(w) ==
    /\ wpc[w] = "wait"
    /\ InFlight(w) = {}
    /\ wpc' = [wpc EXCEPT ![w] = "loop"]
    /\ UNCHANGED <<storeVars, apiVars, running, hb, sentinel, batch, wsnap, claimed, ex>>
    /\ UNCHANGED <<orphanCall, resultStore, health, cleanupCall, consumers, consumerGc, clockVars, codec, periodic>>

\* The 60 s of worker:{id}:heartbeat run out with no _send_heartbeat in
\* between: the worker is dead, or run() is waiting in as_completed(futures)
\* for a pipeline that takes that long
heartbeat_expires(w) ==
    /\ sentinel[w]
    /\ wpc[w] = "crashed" \/ (wpc[w] = "wait" /\ InFlight(w) # {})
    /\ sentinel' = [sentinel EXCEPT ![w] = FALSE]
    /\ UNCHANGED <<storeVars, apiVars, wpc, running, hb, batch, wsnap, claimed, ex>>
    /\ UNCHANGED <<orphanCall, resultStore, health, cleanupCall, consumers, consumerGc, clockVars, codec, periodic>>

\* finally: executor.shutdown(wait=True); _cleanup(): running = False and the
\* final heartbeat
cleanup_heartbeat(w) ==
    /\ wpc[w] = "shutdown"
    /\ InFlight(w) = {}
    /\ running' = [running EXCEPT ![w] = FALSE]
    /\ hb' = [hb EXCEPT ![w] = "stopping"]
    /\ sentinel' = [sentinel EXCEPT ![w] = TRUE]
    /\ wpc' = [wpc EXCEPT ![w] = "cleanup_delete"]
    /\ UNCHANGED <<storeVars, apiVars, batch, wsnap, claimed, ex>>
    /\ UNCHANGED <<orphanCall, resultStore, health, cleanupCall, consumers, consumerGc, clockVars, codec, periodic>>

\* _cleanup(): delete worker:{id} and its heartbeat key
cleanup_delete(w) ==
    /\ wpc[w] = "cleanup_delete"
    /\ hb' = [hb EXCEPT ![w] = "none"]
    /\ sentinel' = [sentinel EXCEPT ![w] = FALSE]
    /\ wpc' = [wpc EXCEPT ![w] = "stopped"]
    /\ UNCHANGED <<storeVars, apiVars, running, batch, wsnap, claimed, ex>>
    /\ UNCHANGED <<orphanCall, resultStore, health, cleanupCall, consumers, consumerGc, clockVars, codec, periodic>>

\* _signal_handler: SIGINT or SIGTERM
signal_handler(w) ==
    /\ Alive(w)
    /\ running[w]
    /\ running' = [running EXCEPT ![w] = FALSE]
    /\ UNCHANGED <<storeVars, apiVars, wpc, hb, sentinel, batch, wsnap, claimed, ex>>
    /\ UNCHANGED <<orphanCall, resultStore, health, cleanupCall, consumers, consumerGc, clockVars, codec, periodic>>

\* The worker process dies: its main loop and its pool threads stop
crash(w) ==
    /\ Alive(w)
    /\ wpc' = [wpc EXCEPT ![w] = "crashed"]
    /\ UNCHANGED <<storeVars, apiVars, running, hb, sentinel, batch, wsnap, claimed, ex>>
    /\ UNCHANGED <<orphanCall, resultStore, health, cleanupCall, consumers, consumerGc, clockVars, codec, periodic>>

\* Time passes: a held entry has been idle for longer than worker_timeout
idle_expire(e) ==
    /\ pel[e] # None
    /\ ~idle[e]
    /\ idle' = [idle EXCEPT ![e] = TRUE]
    /\ UNCHANGED <<task, nextId, appendFaults, stream, lastDelivered, pel, results, apiVars, workerVars, ex>>
    /\ UNCHANGED <<orphanCall, resultStore, health, cleanupCall, consumers, consumerGc, clockVars, codec, periodic>>

\* Time passes: every entry held now has been idle for longer than
\* worker_timeout
timeout_passes ==
    /\ \E e \in EntryIds : pel[e] # None /\ ~idle[e]
    /\ idle' = [e \in EntryIds |-> pel[e] # None]
    /\ UNCHANGED <<task, nextId, appendFaults, stream, lastDelivered, pel, results, apiVars, workerVars, ex>>
    /\ UNCHANGED <<orphanCall, resultStore, health, cleanupCall, consumers, consumerGc, clockVars, codec, periodic>>

WorkerOf(w) ==
    \/ run(w)
    \/ loop_head(w)
    \/ claim_xreadgroup(w)
    \/ claim_get_task(w)
    \/ claim_update_get(w)
    \/ claim_update_hset(w)
    \/ submit(w)
    \/ wait_futures(w)

WorkerStep == \E w \in Workers : WorkerOf(w)

ShutdownStep ==
    \E w \in Workers :
        \/ signal_handler(w)
        \/ cleanup_heartbeat(w)
        \/ cleanup_delete(w)

\* ------------------------------------------------- pipeline (engine calls)
\* translate_text: a failing engine call is caught and a placeholder returned
translate_text(mtOk) ==
    IF mtOk THEN [raised |-> FALSE, text |-> "translation"]
    ELSE [raised |-> FALSE, text |-> "[Translation error]"]

\* process_audio_file / process_task: transcribe_audio re-raises, the
\* translation of the validated text follows
process_audio_file(stt, mtOk) ==
    IF stt # "ok" THEN [raised |-> TRUE, text |-> stt]
    ELSE translate_text(mtOk)

\* ---------------------------------------------------------- _process_task
Threaded(e) == ex[e].w # None /\ wpc[ex[e].w] # "crashed"

\* The update_task_status calls of _process_task, by the position of the call
UpdateStages == {"u02", "u08", "ucompleted", "ustorefail", "uexc"}
StageGet(s) == s \o "_get"
StageHset(s) == s \o "_hset"
StageStatusKeepsProcessing(s) ==
    CASE s = "u02" -> PROCESSING
      [] s = "u08" -> PROCESSING
      [] s = "ucompleted" -> PROCESSING
      [] s = "ustorefail" -> FAILED
      [] s = "uexc" -> FAILED
StageStatus(s) ==
    CASE s = "u02" -> PROCESSING
      [] s = "u08" -> PROCESSING
      [] s = "ucompleted" -> COMPLETED
      [] s = "ustorefail" -> FAILED
      [] s = "uexc" -> FAILED
StageProgress(s) ==
    CASE s = "u02" -> 2
      [] s = "u08" -> 8
      [] s = "ucompleted" -> 10
      [] s = "ustorefail" -> NoProgress
      [] s = "uexc" -> NoProgress
StageError(s, e) ==
    CASE s = "ustorefail" -> StoreFailedText
      [] s = "uexc" -> ex[e].exc
      [] OTHER -> None
StageNext(s) ==
    CASE s = "u02" -> "pipeline"
      [] s = "u08" -> "store"
      [] s = "ucompleted" -> "ack"
      [] s = "ustorefail" -> "done"
      [] s = "uexc" -> "exc_ack"

\* task = task_manager.get_task(task_id); return False when not found
process_get_task(e) ==
    /\ Threaded(e)
    /\ ex[e].pc = "get"
    /\ ex' = [ex EXCEPT ![e] = IF get_task(ex[e].t) = NoTask THEN Returned("False")
                                ELSE [@ EXCEPT !.pc = "u02_get"]]
    /\ UNCHANGED <<storeVars, apiVars, workerVars>>
    /\ UNCHANGED <<orphanCall, resultStore, health, cleanupCall, consumers, consumerGc, clockVars, codec, periodic>>

\* update_task_status: get_task
process_update_get(e) ==
    /\ Threaded(e)
    /\ \E s \in UpdateStages :
        /\ ex[e].pc = StageGet(s)
        /\ ex' = [ex EXCEPT ![e].pc = StageHset(s), ![e].snap = get_task(ex[e].t)]
    /\ UNCHANGED <<storeVars, apiVars, workerVars>>
    /\ UNCHANGED <<orphanCall, resultStore, health, cleanupCall, consumers, consumerGc, clockVars, codec, periodic>>

\* update_task_status: hset of the whole record (return False when not found)
process_update_hset(e) ==
    /\ Threaded(e)
    /\ \E s \in UpdateStages :
        /\ ex[e].pc = StageHset(s)
        /\ task' = IF ex[e].snap = NoTask THEN task
                   ELSE [task EXCEPT ![ex[e].t] = serialize_for_redis(
                            ApplyStatus(ex[e].snap, StageStatus(s), None,
                                        StageError(s, e), StageProgress(s)))]
        /\ ex' = [ex EXCEPT ![e] = IF StageNext(s) = "done" THEN Returned("False")
                                    ELSE [@ EXCEPT !.pc = StageNext(s), !.snap = NoTask]]
    /\ UNCHANGED <<nextId, appendFaults, stream, lastDelivered, pel, idle, results, apiVars, workerVars>>
    /\ UNCHANGED <<orphanCall, resultStore, health, cleanupCall, consumers, consumerGc, clockVars, codec, periodic>>

\* translation_service.process_task(task): the engine calls, which give the
\* packed results (that json.dumps can encode or not) or raise
process_task_engines(e) ==
    /\ Threaded(e)
    /\ ex[e].pc = "pipeline"
    /\ \E stt \in {"ok"} \cup ExcTexts, mtOk \in BOOLEAN, packed \in {"json", "unserialisable"} :
        LET r == process_audio_file(stt, mtOk)
        IN  ex' = [ex EXCEPT ![e].pc = IF r.raised THEN "uexc_get" ELSE "pipeline_store",
                             ![e].exc = IF r.raised THEN r.text ELSE @,
                             ![e].packed = IF r.raised THEN @ ELSE packed,
                             ![e].engine = IF stt # "ok" THEN "stt"
                                           ELSE IF ~mtOk THEN "mt" ELSE "none"]
    /\ UNCHANGED <<storeVars, apiVars, workerVars>>
    /\ UNCHANGED <<orphanCall, resultStore, health, cleanupCall, consumers, consumerGc, clockVars, codec, periodic>>

\* translation_service.store_results: json.dumps raises and False is returned,
\* or redis_client.set writes the key (or fails and says so to nobody) and
\* True is returned
store_results_returns(packed) == packed = "json"
store_results_writes(packed, t, setOk) ==
    [results EXCEPT ![t] = IF packed = "json" /\ setOk THEN TRUE ELSE @]

\* translation_service.process_task(task): its own store_results call,
\* whose outcome is not looked at
process_task_store(e) ==
    /\ Threaded(e)
    /\ ex[e].pc = "pipeline_store"
    /\ \E setOk \in BOOLEAN :
        results' = store_results_writes(ex[e].packed, ex[e].t, setOk)
    /\ ex' = [ex EXCEPT ![e].pc = "u08_get"]
    /\ UNCHANGED <<task, nextId, appendFaults, stream, lastDelivered, pel, idle, apiVars, workerVars>>
    /\ UNCHANGED <<orphanCall, resultStore, health, cleanupCall, consumers, consumerGc, clockVars, codec, periodic>>

\* if not translation_service.store_results(task_id, results): ...
store_results(e) ==
    /\ Threaded(e)
    /\ ex[e].pc = "store"
    /\ \E setOk \in BOOLEAN :
        results' = store_results_writes(ex[e].packed, ex[e].t, setOk)
    /\ ex' = [ex EXCEPT ![e].pc = IF store_results_returns(ex[e].packed)
                                  THEN "ucompleted_get" ELSE "ustorefail_get"]
    /\ UNCHANGED <<task, nextId, appendFaults, stream, lastDelivered, pel, idle, apiVars, workerVars>>
    /\ UNCHANGED <<orphanCall, resultStore, health, cleanupCall, consumers, consumerGc, clockVars, codec, periodic>>

\* task_manager.acknowledge_task(message_id), on success and in the handler
acknowledge_task(e) ==
    /\ Threaded(e)
    /\ ex[e].pc \in {"ack", "exc_ack"}
    /\ pel' = xack(e)
    /\ ex' = [ex EXCEPT ![e] = Returned(IF ex[e].pc = "ack" THEN "True" ELSE "False")]
    /\ UNCHANGED <<task, nextId, appendFaults, stream, lastDelivered, idle, results, apiVars, workerVars>>
    /\ UNCHANGED <<orphanCall, resultStore, health, cleanupCall, consumers, consumerGc, clockVars, codec, periodic>>

ProcessOf(e) ==
    \/ process_get_task(e)
    \/ process_update_get(e)
    \/ process_update_hset(e)
    \/ process_task_engines(e)
    \/ process_task_store(e)
    \/ store_results(e)
    \/ acknowledge_task(e)

ProcessStep == \E e \in EntryIds : ProcessOf(e)

\* ------------------------------------- store_results / get_results
\* json.dumps and json.loads of a packed result (a dict of str to dict of str)
json_dumps(r) == "{" \o r \o "}"
json_loads(d) == CHOOSE r \in {"r1", "r2"} : json_dumps(r) = d

\* store_results(task_id, results): json.dumps raises and False is returned;
\* else redis_client.set writes the key or fails without a word,
\* _save_results_to_file writes one more file or fails without a word, and
\* True is returned
service_store_results(t) ==
    \E r \in {"r1", "r2", "unserialisable"}, setOk \in BOOLEAN, fileOk \in BOOLEAN :
        /\ fileOk => Len(resultStore.files[t]) < MaxResultFiles
        /\ resultStore' =
            IF ~store_results_returns(IF r = "unserialisable" THEN r ELSE "json")
            THEN [resultStore EXCEPT !.got = "False"]
            ELSE [resultStore EXCEPT
                    !.fast[t] = IF setOk THEN json_dumps(r) ELSE @,
                    !.files[t] = IF fileOk THEN Append(@, json_dumps(r)) ELSE @,
                    !.stored[t] = r,
                    !.got = "True"]
        /\ UNCHANGED <<storeVars, apiVars, orphanCall, health, cleanupCall, consumers, consumerGc, workerVars, ex, clockVars, codec, periodic>>

\* The results:{id} key is deleted (cleanup_old_tasks)
results_key_cleared(t) ==
    /\ resultStore.fast[t] # None
    /\ resultStore' = [resultStore EXCEPT !.fast[t] = None, !.got = "none"]
    /\ UNCHANGED <<storeVars, apiVars, orphanCall, health, cleanupCall, consumers, consumerGc, workerVars, ex, clockVars, codec, periodic>>

\* get_results(task_id): the key when present, else the latest file, else None
service_get_results(t) ==
    /\ resultStore' = [resultStore EXCEPT !.got =
            IF resultStore.fast[t] # None THEN json_loads(resultStore.fast[t])
            ELSE IF resultStore.files[t] # <<>>
                 THEN json_loads(resultStore.files[t][Len(resultStore.files[t])])
                 ELSE None]
    /\ UNCHANGED <<storeVars, apiVars, orphanCall, health, cleanupCall, consumers, consumerGc, workerVars, ex, clockVars, codec, periodic>>

ResultsNext ==
    \E t \in TaskIds :
        \/ service_store_results(t)
        \/ results_key_cleared(t)
        \/ service_get_results(t)
ResultsSpec == Init /\ [][ResultsNext]_vars

\* ---------------------------------------------------- cleanup_old_tasks
\* cutoff_time = now - max_age_hours; for key in
\* redis_client.scan_iter("task:*"): the keys present, as a list (start: the
\* records as they are when cutoff_time is taken)
cleanup_old_scan ==
    /\ cleanupCall.pc = "none"
    /\ LET keys == SelectSeq([t \in TaskIds |-> t], LAMBDA t : task[t] # NoTask)
       IN  cleanupCall' = [NoCleanupCall EXCEPT !.pc = IF keys = <<>> THEN "none" ELSE "hgetall",
                                                !.todo = keys,
                                                !.start = IF keys = <<>> THEN <<>> ELSE task]
    /\ UNCHANGED <<storeVars, apiVars, orphanCall, resultStore, health, consumers, consumerGc, workerVars, ex, clockVars, codec, periodic>>

\* task_data = redis_client.hgetall(key); the tests of status and updated_at
\* (old: the updated_at read is before cutoff_time, which a record written
\* since cutoff_time was taken is not)
cleanup_old_hgetall ==
    /\ cleanupCall.pc = "hgetall"
    /\ \E old \in IF task[Head(cleanupCall.todo)] = cleanupCall.start[Head(cleanupCall.todo)]
                  THEN BOOLEAN ELSE {FALSE} :
        LET t == Head(cleanupCall.todo)
            rest == Tail(cleanupCall.todo)
        IN  cleanupCall' =
                IF task[t] # NoTask /\ task[t].status \in {COMPLETED, FAILED, CANCELLED} /\ old
                THEN [cleanupCall EXCEPT !.pc = "delete", !.snap = task[t], !.old = old]
                ELSE [cleanupCall EXCEPT !.pc = IF rest = <<>> THEN "none" ELSE "hgetall",
                                         !.start = IF rest = <<>> THEN <<>> ELSE @,
                                         !.todo = rest, !.snap = task[t], !.old = old,
                                         !.returned = IF rest = <<>> THEN @ ELSE cleanupCall.cleaned_count]
    /\ UNCHANGED <<storeVars, apiVars, orphanCall, resultStore, health, consumers, consumerGc, workerVars, ex, clockVars, codec, periodic>>

\* redis_client.delete(key)
cleanup_old_delete ==
    /\ cleanupCall.pc = "delete"
    /\ task' = [task EXCEPT ![Head(cleanupCall.todo)] = NoTask]
    /\ cleanupCall' = [cleanupCall EXCEPT !.pc = "delete_results"]
    /\ UNCHANGED <<nextId, appendFaults, stream, lastDelivered, pel, idle, results, apiVars,
                   orphanCall, resultStore, health, consumers, consumerGc, workerVars, ex, clockVars, codec, periodic>>

\* redis_client.delete(f"results:{task_id}"); cleaned_count += 1; return
\* cleaned_count after the last key
cleanup_old_delete_results ==
    /\ cleanupCall.pc = "delete_results"
    /\ results' = [results EXCEPT ![Head(cleanupCall.todo)] = FALSE]
    /\ LET rest == Tail(cleanupCall.todo)
       IN  cleanupCall' = [cleanupCall EXCEPT
                              !.pc = IF rest = <<>> THEN "none" ELSE "hgetall",
                              !.start = IF rest = <<>> THEN <<>> ELSE @,
                              !.todo = rest,
                              !.cleaned_count = @ + 1,
                              !.returned = cleanupCall.cleaned_count + 1]
    /\ UNCHANGED <<task, nextId, appendFaults, stream, lastDelivered, pel, idle, apiVars,
                   orphanCall, resultStore, health, consumers, consumerGc, workerVars, ex, clockVars, codec, periodic>>

\* ------------------------------------------- serialize_for_redis, get_task
\* Python values carry their type: [ty |-> type, v |-> the value as text]

\* serialize_for_redis, the value stored for one field: a list or dict as its
\* JSON text, an enum as its value, None as the empty string, the rest as
\* str(v)
serialize_field(x) ==
    IF x.ty = "list" THEN "[" \o x.v \o "]"
    ELSE IF x.ty = "dict" THEN "{" \o x.v \o "}"
    ELSE IF x.ty = "None" THEN ""
    ELSE x.v

\* get_task, the value of one field of the TranslationTask built from the
\* hash: status as TaskStatus, retry_count as int, progress as float, a
\* non-empty collection field through json.loads, the rest as the string read
get_task_field(k, s) ==
    IF k = "status" THEN [ty |-> "TaskStatus", v |-> s]
    ELSE IF k = "retry_count" THEN [ty |-> "int", v |-> s]
    ELSE IF k = "progress" THEN [ty |-> "float", v |-> s]
    ELSE IF k \in {"target_languages", "text_data"} /\ s # ""
    THEN CHOOSE c \in [ty : {"list", "dict"}, v : {"", "x"}] : serialize_field(c) = s
    ELSE [ty |-> "str", v |-> s]

\* redis_client.hset(task_key, mapping=serialize_for_redis(task.dict())) of a
\* task T, then get_task(task_id)
CodecNext ==
    /\ \E status \in TaskStatus, languages \in {"", "x"}, text \in {"", "x"},
          worker \in {None, "w1"}, error \in {None, "stt failed"}, rc \in {"0", "1"} :
        LET T == [status |-> [ty |-> "TaskStatus", v |-> status],
                  target_languages |-> [ty |-> "list", v |-> languages],
                  text_data |-> [ty |-> "dict", v |-> text],
                  assigned_worker |-> [ty |-> IF worker = None THEN "None" ELSE "str",
                                       v |-> worker],
                  error_message |-> [ty |-> IF error = None THEN "None" ELSE "str",
                                     v |-> error],
                  retry_count |-> [ty |-> "int", v |-> rc],
                  progress |-> [ty |-> "float", v |-> "0.0"]]
            hash == [k \in DOMAIN T |-> serialize_field(T[k])]
        IN  codec' = [T |-> T, hash |-> hash,
                      read |-> [k \in DOMAIN hash |-> get_task_field(k, hash[k])]]
    /\ UNCHANGED <<storeVars, apiVars, orphanCall, resultStore, health, cleanupCall, consumers,
                   consumerGc, clockVars, workerVars, ex, periodic>>
CodecSpec == Init /\ [][CodecNext]_vars

\* --------------------------------------------------------- updated_at
\* Time passes
clock_tick ==
    /\ clock < MaxClock
    /\ clock' = clock + 1
    /\ UNCHANGED <<storeVars, apiVars, orphanCall, resultStore, health, cleanupCall, consumers,
                   consumerGc, updated_at, now, workerVars, ex, codec, periodic>>

\* update_task_status / retry_task: task = self.get_task(task_id);
\* task.updated_at = datetime.now(UTC)
update_now(x) ==
    /\ now[x] = NoStamp
    /\ \E t \in TaskIds :
        /\ get_task(t) # NoTask
        /\ now' = [now EXCEPT ![x] = [t |-> t, at |-> clock]]
    /\ UNCHANGED <<storeVars, apiVars, orphanCall, resultStore, health, cleanupCall, consumers,
                   consumerGc, clock, updated_at, workerVars, ex, codec, periodic>>

\* redis_client.hset(task_key, mapping=serialize_for_redis(task.dict()))
update_hset(x) ==
    /\ now[x] # NoStamp
    /\ updated_at' = [updated_at EXCEPT ![now[x].t] = now[x].at]
    /\ now' = [now EXCEPT ![x] = NoStamp]
    /\ UNCHANGED <<storeVars, apiVars, orphanCall, resultStore, health, cleanupCall, consumers,
                   consumerGc, clock, workerVars, ex, codec, periodic>>

\* ---------------------------------------------------- _periodic_cleanup
\* if current_time - self.last_cleanup_time > self.cleanup_interval
cleanup_due_inclusive(current_time, last_cleanup_time) ==
    current_time - last_cleanup_time >= cleanup_interval
cleanup_due(current_time, last_cleanup_time) ==
    current_time - last_cleanup_time > cleanup_interval

\* create_task: self._periodic_cleanup(): current_time = time.time(), the time
\* guard, _check_redis_connection(), and the scan that cleanup_old_tasks(24)
\* begins with; a guard or a ping that fails leaves the clean-up out
periodic_cleanup(a) ==
    /\ Free(a)
    /\ cleanupCall.pc = "none"
    /\ \E ping \in BOOLEAN :
        LET keys == SelectSeq([t \in TaskIds |-> t], LAMBDA t : task[t] # NoTask)
            due == cleanup_due(clock, periodic.last_cleanup_time)
        IN  /\ periodic' = [periodic EXCEPT !.current_time = clock, !.ping = ping,
                                            !.outcome = IF ~due THEN "skipped"
                                                        ELSE IF ~ping THEN "failed"
                                                        ELSE "ran"]
            /\ api' = [api EXCEPT ![a] =
                          Call("create", IF due /\ ping THEN "cleanup" ELSE "create_hset",
                               0, NoTask)]
            /\ cleanupCall' =
                  IF due /\ ping
                  THEN [NoCleanupCall EXCEPT !.pc = IF keys = <<>> THEN "none" ELSE "hgetall",
                                             !.todo = keys,
                                             !.start = IF keys = <<>> THEN <<>> ELSE task]
                  ELSE cleanupCall
    /\ UNCHANGED <<storeVars, response, cancelled, ncancel, orphanCall, resultStore, health,
                   consumers, consumerGc, clockVars, codec, workerVars, ex>>

\* cleanup_old_tasks has returned: self.last_cleanup_time = current_time
periodic_cleanup_done(a) ==
    /\ api[a].pc = "cleanup"
    /\ cleanupCall.pc = "none"
    /\ periodic' = [periodic EXCEPT !.last_cleanup_time = periodic.current_time]
    /\ api' = [api EXCEPT ![a].pc = "create_hset"]
    /\ UNCHANGED <<storeVars, response, cancelled, ncancel, orphanCall, resultStore, health,
                   cleanupCall, consumers, consumerGc, clockVars, codec, workerVars, ex>>

\* -------------------------------------------------- clean_dead_consumers
\* The consumer's idle time in XINFO CONSUMERS passes idle_ms (3600000 ms)
consumer_idles(w) ==
    /\ consumers[w] = "active"
    /\ consumers' = [consumers EXCEPT ![w] = "idle"]
    /\ UNCHANGED <<storeVars, apiVars, orphanCall, resultStore, health, cleanupCall, consumerGc,
                   workerVars, ex, clockVars, codec, periodic>>

\* consumers = self.xinfo_consumers(stream, group); the loop keeps those with
\* c.get("idle", 0) > idle_ms
clean_dead_xinfo ==
    /\ consumerGc.pc = "none"
    /\ LET dead == SelectSeq(<<"w1", "w2">>, LAMBDA w : consumers[w] = "idle")
       IN  consumerGc' = [pc |-> IF dead = <<>> THEN "none" ELSE "delconsumer", todo |-> dead]
    /\ UNCHANGED <<storeVars, apiVars, orphanCall, resultStore, health, cleanupCall, consumers,
                   workerVars, ex, clockVars, codec, periodic>>

\* self.xgroup_delconsumer(stream, group, name): the consumer leaves the group
\* and the entries it holds leave the pending list
clean_dead_delconsumer ==
    /\ consumerGc.pc = "delconsumer"
    /\ LET w == Head(consumerGc.todo)
           rest == Tail(consumerGc.todo)
       IN  /\ consumers' = [consumers EXCEPT ![w] = "absent"]
           /\ pel' = [e \in EntryIds |->
                         IF consumers[w] # "absent" /\ pel[e] = w THEN None ELSE pel[e]]
           /\ consumerGc' = [pc |-> IF rest = <<>> THEN "none" ELSE "delconsumer", todo |-> rest]
    /\ UNCHANGED <<task, nextId, appendFaults, stream, lastDelivered, idle, results, apiVars,
                   orphanCall, resultStore, health, cleanupCall, workerVars, ex, clockVars, codec, periodic>>

\* ------------------------------------------------- claim_orphaned_tasks
\* redis_client.xpending_range(min="-", max="+", count=100): the first entries
\* of the group's pending list, in stream order, each with the idle time it
\* had when the range was read
PendingRange ==
    LET all == [e \in 1..Len(stream) |-> [e |-> e, idle |-> idle[e]]]
        Held(r) == pel[r.e] # None
        held == SelectSeq(all, Held)
    IN  SubSeq(held, 1, IF Len(held) < xpending_count THEN Len(held) ELSE xpending_count)

\* redis_client.xclaim with min_idle_time = worker_timeout: the entry moves to
\* the caller when it is still pending and idle for that long, else nothing
xclaim_claims(e) == pel[e] # None /\ idle[e]

\* if task and task.status == TaskStatus.PROCESSING
OrphanResets(t) == t # NoTask /\ t.status = PROCESSING

OrphanAdvance(c, rest) ==
    [c EXCEPT !.pc = IF rest = <<>> THEN "return" ELSE "entry",
              !.todo = rest, !.snap = NoTask]

\* pending_messages = redis_client.xpending_range(...)
claim_orphaned_xpending(w) ==
    /\ orphanCall.pc = "none"
    /\ orphanCall' = [pc |-> IF PendingRange = <<>> THEN "return" ELSE "entry", w |-> w,
                      todo |-> PendingRange, snap |-> NoTask, tasks |-> <<>>]
    /\ UNCHANGED <<storeVars, apiVars, workerVars, ex>>
    /\ UNCHANGED <<resultStore, health, cleanupCall, consumers, consumerGc, clockVars, codec, periodic>>

\* for entry in pending_data: if idle_time > settings.worker_timeout * 1000,
\* the xclaim
claim_orphaned_xclaim ==
    /\ orphanCall.pc = "entry"
    /\ LET r == Head(orphanCall.todo)
       IN  IF r.idle /\ xclaim_claims(r.e)
           THEN /\ pel' = [pel EXCEPT ![r.e] = orphanCall.w]
                /\ idle' = [idle EXCEPT ![r.e] = FALSE]
                /\ orphanCall' = [orphanCall EXCEPT !.pc = "get"]
           ELSE /\ orphanCall' = OrphanAdvance(orphanCall, Tail(orphanCall.todo))
                /\ UNCHANGED <<pel, idle>>
    /\ UNCHANGED <<task, nextId, appendFaults, stream, lastDelivered, results, apiVars, workerVars, ex>>
    /\ UNCHANGED <<resultStore, health, cleanupCall, consumers, consumerGc, clockVars, codec, periodic>>

\* task = self.get_task(task_id) and the test of its status
claim_orphaned_get_task ==
    /\ orphanCall.pc = "get"
    /\ LET r == Head(orphanCall.todo)
       IN  orphanCall' = IF OrphanResets(get_task(stream[r.e]))
                         THEN [orphanCall EXCEPT !.pc = "update_get"]
                         ELSE OrphanAdvance(orphanCall, Tail(orphanCall.todo))
    /\ UNCHANGED <<storeVars, apiVars, workerVars, ex>>
    /\ UNCHANGED <<resultStore, health, cleanupCall, consumers, consumerGc, clockVars, codec, periodic>>

\* update_task_status(task_id, PENDING, progress=0.0): get_task
claim_orphaned_update_get ==
    /\ orphanCall.pc = "update_get"
    /\ orphanCall' = [orphanCall EXCEPT !.pc = "update_hset",
                                        !.snap = get_task(stream[Head(orphanCall.todo).e])]
    /\ UNCHANGED <<storeVars, apiVars, workerVars, ex>>
    /\ UNCHANGED <<resultStore, health, cleanupCall, consumers, consumerGc, clockVars, codec, periodic>>

\* update_task_status: hset of the whole record; tasks.append((message_id, task))
claim_orphaned_update_hset ==
    /\ orphanCall.pc = "update_hset"
    /\ LET r == Head(orphanCall.todo)
           c == OrphanAdvance(orphanCall, Tail(orphanCall.todo))
       IN  /\ task' = IF orphanCall.snap = NoTask THEN task
                      ELSE [task EXCEPT ![stream[r.e]] = serialize_for_redis(
                               ApplyStatus(orphanCall.snap, PENDING, None, None, 0))]
           /\ orphanCall' = [c EXCEPT !.tasks = Append(orphanCall.tasks, r.e)]
    /\ UNCHANGED <<nextId, appendFaults, stream, lastDelivered, pel, idle, results, apiVars, workerVars, ex>>
    /\ UNCHANGED <<resultStore, health, cleanupCall, consumers, consumerGc, clockVars, codec, periodic>>

\* return tasks
claim_orphaned_return ==
    /\ orphanCall.pc = "return"
    /\ orphanCall' = NoOrphanCall
    /\ UNCHANGED <<storeVars, apiVars, workerVars, ex>>
    /\ UNCHANGED <<resultStore, health, cleanupCall, consumers, consumerGc, clockVars, codec, periodic>>

OrphanStep ==
    \/ \E w \in Workers : claim_orphaned_xpending(w)
    \/ claim_orphaned_xclaim
    \/ claim_orphaned_get_task
    \/ claim_orphaned_update_get
    \/ claim_orphaned_update_hset
    \/ claim_orphaned_return

CrashStep ==
    \/ \E w \in Workers : crash(w)
    \/ \E e \in EntryIds : idle_expire(e)
    \/ stream_outage

CreateStep ==
    \E a \in ApiSlots :
        \/ create_task_hset(a)
        \/ create_task_xadd(a)
        \/ create_task_xadd_raises(a)

\* The API and the workers, with every worker alive and no shutdown signal
Next == ApiStep \/ WorkerStep \/ ProcessStep

Spec == Init /\ [][Next]_vars

\* Retries that race: create and retry calls with room in the stream for
\* the entries of two successful retries, and the workers serving them
retry_task_get_racing(a) == retry_task_get_within(a, MaxRetryEntries)

RetryStep ==
    \E a \in ApiSlots :
        \/ create_task_hset(a)
        \/ create_task_xadd(a)
        \/ retry_task_get_racing(a)
        \/ retry_task_hset(a)
        \/ retry_task_xadd(a)

RetryNext == RetryStep \/ WorkerStep \/ ProcessStep

RetrySpec == Init /\ [][RetryNext]_vars

\* A worker's pass through the health gate of its loop
passes_health_check(w) == loop_head(w) /\ wpc'[w] = "claim"

\* Scheduling: every started worker keeps looping and keeps passing its
\* health check, every submitted _process_task runs on in its thread, every
\* API call that has begun runs to its return
Fairness ==
    /\ \A w \in Workers : WF_vars(WorkerOf(w)) /\ WF_vars(passes_health_check(w))
    /\ \A e \in EntryIds : WF_vars(ProcessOf(e))
    /\ \A a \in ApiSlots : WF_vars(ApiContinue(a))

LiveSpec == Init /\ [][Next]_vars /\ Fairness

\* Workers, time passing, and claim_orphaned_tasks called by some worker
OrphanNext ==
    \/ \E a \in ApiSlots : create_task_hset(a) \/ create_task_xadd(a)
    \/ WorkerStep
    \/ ProcessStep
    \/ \E w \in Workers : crash(w)
    \/ \E e \in EntryIds : idle_expire(e)
    \/ OrphanStep
OrphanSpec == Init /\ [][OrphanNext]_vars

\* One worker with its _process_task calls, tasks retried, time passing, and
\* claim_orphaned_tasks called under some worker id
SweepNext ==
    \/ \E a \in ApiSlots :
        \/ create_task_hset(a)
        \/ create_task_xadd(a)
        \/ retry_task_get(a)
        \/ retry_task_hset(a)
        \/ retry_task_xadd(a)
    \/ WorkerOf("w1")
    \/ ProcessStep
    \/ timeout_passes
    \/ OrphanStep
SweepSpec == Init /\ [][SweepNext]_vars

\* One worker with its _process_task calls, tasks retried, the clean-up of
\* old tasks that _periodic_cleanup runs, and clean_dead_consumers, which a
\* process runs when it imports the task manager
JanitorNext ==
    \/ \E a \in ApiSlots :
        \/ create_task_hset(a)
        \/ create_task_xadd(a)
        \/ retry_task_get(a)
        \/ retry_task_hset(a)
        \/ retry_task_xadd(a)
    \/ run("w1")
    \/ loop_head("w1")
    \/ claim_xreadgroup_observed("w1")
    \/ claim_get_task("w1")
    \/ claim_update_get("w1")
    \/ claim_update_hset("w1")
    \/ submit("w1")
    \/ wait_futures("w1")
    \/ ProcessStep
    \/ cleanup_old_scan
    \/ cleanup_old_hgetall
    \/ cleanup_old_delete
    \/ cleanup_old_delete_results
    \/ consumer_idles("w1")
    \/ clean_dead_xinfo
    \/ clean_dead_delconsumer
JanitorSpec == Init /\ [][JanitorNext]_vars

\* The writers of one record and the clock they read
ClockNext ==
    \/ \E a \in ApiSlots : create_task_hset(a) \/ create_task_xadd(a)
    \/ clock_tick
    \/ \E x \in Writers : update_now(x) \/ update_hset(x)
ClockSpec == Init /\ [][ClockNext]_vars

\* create_task calls with their _periodic_cleanup, one worker and the clock
PeriodicNext ==
    \/ periodic_cleanup("a1")
    \/ periodic_cleanup_done("a1")
    \/ create_task_hset_at("a1", "create_hset")
    \/ create_task_xadd("a1")
    \/ cleanup_old_hgetall
    \/ cleanup_old_delete
    \/ cleanup_old_delete_results
    \/ clock_tick
    \/ WorkerOf("w1")
    \/ ProcessStep
PeriodicSpec == Init /\ [][PeriodicNext]_vars

\* Workers whose health checks leave their readings behind
HealthNext ==
    \/ \E a \in ApiSlots : create_task_hset(a) \/ create_task_xadd(a)
    \/ \E w \in Workers :
        \/ run(w)
        \/ loop_head_observed(w)
        \/ claim_xreadgroup(w)
        \/ claim_get_task(w)
        \/ claim_update_get(w)
        \/ claim_update_hset(w)
        \/ submit(w)
        \/ wait_futures(w)
    \/ ProcessStep
HealthSpec == Init /\ [][HealthNext]_vars

\* Workers that are signalled to shut down or die and a stream append that
\* fails, with tasks that are created and served
FaultNext == CreateStep \/ WorkerStep \/ ShutdownStep \/ ProcessStep \/ CrashStep

FaultSpec == Init /\ [][FaultNext]_vars

\* Workers that are signalled or die, with heartbeat keys that expire
HeartbeatNext == FaultNext \/ \E w \in Workers : heartbeat_expires(w)
HeartbeatSpec == Init /\ [][HeartbeatNext]_vars

TypeOK ==
    /\ \A t \in TaskIds : task[t] = NoTask \/ task[t].status \in TaskStatus
    /\ nextId \in 0..MaxTasks
    /\ appendFaults \in 0..MaxAppendFaults
    /\ Len(stream) <= MaxRetryEntries
    /\ lastDelivered \in 0..Len(stream)

\* ---------------------------------------------------------------------
\* Lifecycle properties
\* ---------------------------------------------------------------------

Stored(t) == task[t] # NoTask

\* C1: once cancel_task has succeeded on a task that was PENDING or
\* PROCESSING, every later read of the task returns CANCELLED; in particular
\* no worker writes COMPLETED over the cancellation.
C1_CancelSticks ==
    \A t \in cancelled : task[t].status = CANCELLED

\* The edges of the task lifecycle graph, "absent" being the state before
\* create_task
LifecycleEdges ==
    { <<"absent", PENDING>>,
      <<PENDING, PROCESSING>>, <<PENDING, CANCELLED>>,
      <<PROCESSING, PROCESSING>>, <<PROCESSING, COMPLETED>>,
      <<PROCESSING, FAILED>>, <<PROCESSING, PENDING>>,
      <<PROCESSING, CANCELLED>>,
      <<FAILED, PENDING>> }

\* C2: every change of a task's status is an edge of the lifecycle graph;
\* no write of any other transition reaches the store.
C2_OnlyLifecycleEdges ==
    [][\A t \in TaskIds :
          task'[t].status # task[t].status
              => <<task[t].status, task'[t].status>> \in LifecycleEdges]_vars

\* A step in which retry_task writes its requeued record of task t
RetryWrites(t) ==
    \E a \in ApiSlots :
        /\ api[a].op = "retry" /\ api[a].pc = "retry_hset" /\ api[a].t = t
        /\ api'[a].pc = "retry_xadd"

\* C3: a task in COMPLETED, FAILED or CANCELLED is never moved to PENDING or
\* PROCESSING, except by retry_task taking FAILED to PENDING.
C3_TerminalStays ==
    [][\A t \in TaskIds :
          (Stored(t) /\ task[t].status \in Terminal
                     /\ task'[t].status \in {PENDING, PROCESSING})
              => (task[t].status = FAILED /\ task'[t].status = PENDING
                  /\ RetryWrites(t))]_vars

SuccessfulRetries(t) ==
    Cardinality({e \in 1..Len(stream) : stream[e] = t}) - 1

\* A step in which a retry_task call on task t returns True
RetryReturnsTrue(t) ==
    \E a \in ApiSlots :
        /\ api[a].pc = "retry_xadd" /\ api[a].t = t
        /\ api'[a].pc = "ret"
        /\ response' = Response("retry", t, "True", 200)

\* C12: over a task's lifetime at most TASK_RETRY_LIMIT calls of retry_task
\* on it return success: a call returns True only when fewer than
\* TASK_RETRY_LIMIT calls have done so before it.
C12_AtMostLimitRetries ==
    [][\A t \in TaskIds :
          RetryReturnsTrue(t) => SuccessfulRetries(t) < task_retry_limit]_vars

CreateEnds(a) == api[a].pc = "create_xadd" /\ api'[a].pc = "ret"

\* C14: when the stream append of create_task fails transiently (the first
\* attempt fails, a second would succeed), create_task appends at its second
\* attempt and returns the task_id; it raises only when a second attempt
\* would fail too.
C14_CreateRetriesAppend ==
    [][\A a \in ApiSlots :
          /\ (CreateEnds(a) /\ appendFaults = 1)
                => /\ response' = Response("create", api[a].t, "task_id", 200)
                   /\ stream' = Append(stream, api[a].t)
          /\ (CreateEnds(a) /\ response'.ret = "raise")
                => appendFaults >= 2]_vars

\* The stream holds an entry carrying task id t
HasEntry(t) == \E e \in 1..Len(stream) : stream[e] = t

\* A create_task call on t is between its hset and its xadd
CreateInFlight(t) == \E a \in ApiSlots : api[a].pc = "create_xadd" /\ api[a].t = t

\* C15: in every reachable state, stream append errors included, each task
\* record that is PENDING or RETRY has an entry carrying its task_id in the
\* stream (looked at outside the create_task call that is writing it).
C15_PendingHasEntry ==
    \A t \in TaskIds :
        (Stored(t) /\ task[t].status \in {PENDING, RETRY} /\ ~CreateInFlight(t))
            => HasEntry(t)

\* A step in which entry e is acknowledged
Acked(e) == e <= Len(stream) /\ pel[e] # None /\ pel'[e] = None

\* C16: whenever an entry is ACKed, the task it names is at that moment
\* COMPLETED, FAILED or CANCELLED, or absent; no entry is ACKed while its
\* task is PENDING or PROCESSING.
C16_AckOnlyTerminal ==
    [][\A e \in EntryIds :
          Acked(e) => (~Stored(stream[e]) \/ task[stream[e]].status \in Terminal)]_vars

\* The entry and the task that claim_pending_tasks of worker w is looking at
ClaimEntry(w) == Head(batch[w])
ClaimTask(w) == stream[Head(batch[w])]

ClaimSkips(w) ==
    /\ wpc[w] = "claim_loop"
    /\ ~Stored(ClaimTask(w)) \/ task[ClaimTask(w)].status # PENDING
    /\ batch'[w] = Tail(batch[w])

\* C18: every entry read by claim_pending_tasks whose task is absent or not
\* PENDING is ACKed and discarded by that call: it is in no consumer's
\* pending list afterwards.
C18_PoisonEntriesAcked ==
    [][\A w \in Workers :
          ClaimSkips(w) => pel'[ClaimEntry(w)] = None]_vars

\* Worker b has been delivered an entry of a task that is PROCESSING under
\* another, live worker, and deals with it in this step
DuplicateDelivered(b) ==
    /\ wpc[b] = "claim_loop" /\ wpc'[b] # "claim_loop"
    /\ Stored(ClaimTask(b))
    /\ task[ClaimTask(b)].status = PROCESSING
    /\ task[ClaimTask(b)].assigned_worker \in Workers \ {b}
    /\ \E e \in EntryIds : ex[e].w = task[ClaimTask(b)].assigned_worker
                           /\ ex[e].t = ClaimTask(b)

\* C19: when an entry for a task that is PROCESSING under worker A is
\* delivered to another worker B, B ACKs the entry, starts no pipeline for
\* the task and leaves the task record as it is.
C19_DuplicateDeliveryAcked ==
    [][\A b \in Workers :
          DuplicateDelivered(b)
              => /\ pel'[ClaimEntry(b)] = None
                 /\ task' = task
                 /\ claimed'[b] = claimed[b]
                 /\ ex' = ex]_vars

\* C20: claim_orphaned_tasks(worker) examines every pending entry and claims
\* exactly those that its reading showed idle for longer than worker_timeout
\* and that are still pending; a claimed entry whose task is PROCESSING when loaded
\* has its task written PENDING with progress 0 and is added to the returned
\* pairs; the other entries keep their holder, and the call modifies no task
\* but the ones it resets.
OrphanEntry == Head(orphanCall.todo).e
C20_ClaimOrphaned ==
    [][orphanCall' # orphanCall =>
        /\ orphanCall.pc = "none" =>
            \A e \in 1..Len(stream) : pel[e] # None /\ idle[e] =>
                \E i \in DOMAIN orphanCall'.todo : orphanCall'.todo[i].e = e
        /\ orphanCall.pc = "entry" =>
            /\ (orphanCall'.pc = "get") <=> (Head(orphanCall.todo).idle /\ pel[OrphanEntry] # None)
            /\ IF orphanCall'.pc = "get"
               THEN pel' = [pel EXCEPT ![OrphanEntry] = orphanCall.w]
               ELSE pel' = pel /\ orphanCall'.todo = Tail(orphanCall.todo)
        /\ orphanCall.pc = "get" =>
            (orphanCall'.pc = "update_get") <=>
                (task[stream[OrphanEntry]] # NoTask /\ task[stream[OrphanEntry]].status = PROCESSING)
        /\ orphanCall.pc = "update_get" => orphanCall'.pc = "update_hset"
        /\ orphanCall.pc = "update_hset" =>
            /\ task'[stream[OrphanEntry]].status = PENDING
            /\ task'[stream[OrphanEntry]].progress = 0
            /\ orphanCall'.tasks = Append(orphanCall.tasks, OrphanEntry)
        /\ orphanCall.pc # "entry" => pel' = pel
        /\ orphanCall.pc # "update_hset" =>
            /\ task' = task
            /\ orphanCall.pc # "none" /\ orphanCall'.pc # "none" =>
                orphanCall'.tasks = orphanCall.tasks
    ]_vars

\* C21: an orphan reclaim leaves the task's retry_count unchanged: the write
\* by which claim_orphaned_tasks resets a task to PENDING stores the
\* retry_count the record had just before it.
C21_ReclaimKeepsRetryCount ==
    [][orphanCall.pc = "update_hset" /\ orphanCall' # orphanCall =>
        task'[stream[OrphanEntry]].retry_count = task[stream[OrphanEntry]].retry_count
    ]_vars

Orphaned(e) ==
    /\ e <= Len(stream)
    /\ pel[e] # None /\ wpc[pel[e]] = "crashed"
    /\ idle[e]

\* A step in which worker w passes the health gate and runs its orphan sweep
SweepRuns(w) == wpc[w] = "loop" /\ running[w] /\ wpc'[w] \notin {"loop", "shutdown"}

\* C5: when an entry claimed by a crashed worker has been idle for longer
\* than worker_timeout, the orphan sweep of another worker re-claims the
\* entry and resets its task to PENDING (from where it is served to
\* COMPLETED or FAILED and acknowledged).
C5_OrphanSweepReclaims ==
    [][\A w \in Workers, e \in EntryIds :
          (Orphaned(e) /\ task[stream[e]].status = PROCESSING /\ SweepRuns(w))
              => /\ pel'[e] = w
                 /\ task'[stream[e]].status = PENDING]_vars

\* C6: _process_task acknowledges its stream entry on every path by which it
\* returns: no returned execution leaves its entry in the pending list.
C6_AckOnEveryExit ==
    \A e \in EntryIds : ex[e].pc = "done" => pel[e] = None

\* A step of the except-branch of _process_task of entry e: its write of
\* the record, and its return
HandlerWrites(e) == ex[e].pc = "uexc_hset" /\ ex'[e].pc # "uexc_hset"
HandlerReturns(e) == ex[e].pc = "exc_ack" /\ ex'[e].pc # "exc_ack"

\* C7: when the pipeline call raises, the handler writes the task FAILED with
\* the text of the exception as error_message, then acknowledges the entry
\* and returns False.
C7_ExceptionToFailed ==
    [][\A e \in EntryIds :
          /\ HandlerWrites(e)
                => /\ task'[ex[e].t].status = FAILED
                   /\ task'[ex[e].t].error_message = ex[e].exc
                   /\ ex'[e].pc = "exc_ack"
          /\ HandlerReturns(e)
                => /\ pel'[e] = None
                   /\ ex'[e] = Returned("False")]_vars

\* A step in which the execution of entry e writes its task COMPLETED
WritesCompleted(e) == ex[e].pc = "ucompleted_hset" /\ ex'[e].pc = "ack"

\* C8: an execution in which the speech-to-text or the translation call
\* failed ends with its task FAILED (the except-branch writes the error text
\* and acknowledges the entry); it never writes the task COMPLETED.
C8_EngineFailureFails ==
    [][\A e \in EntryIds :
          ex[e].engine # "none" => ~WritesCompleted(e)]_vars

\* C22: a worker writes COMPLETED for a task only if the write of its packed
\* results to results:{id} succeeded: whenever an execution writes its task
\* COMPLETED the results key of the task is present.
C22_CompletedNeedsResults ==
    [][\A e \in EntryIds :
          WritesCompleted(e) => results[ex[e].t]]_vars

\* C23: get_results(id) returns the results of the latest store_results call
\* that returned True while the results:{id} key is present; with the key
\* cleared it returns the payload of the most recent file of the task; with
\* neither it returns None.
C23_GetReturnsStored ==
    [][\A t \in TaskIds :
          (resultStore' # resultStore /\ resultStore'.got \notin {"True", "False", "none"}) =>
              IF resultStore.fast[t] # None
              THEN resultStore.stored[t] # None => resultStore'.got = resultStore.stored[t]
              ELSE IF resultStore.files[t] # <<>>
                   THEN json_dumps(resultStore'.got) = resultStore.files[t][Len(resultStore.files[t])]
                   ELSE resultStore'.got = None]_vars

\* C24: a task cancelled while a worker is processing it stays CANCELLED with
\* no result record: once the stored status is CANCELLED, the execution
\* writes neither the task record nor the results key (it only aborts and
\* acknowledges).
C24_CancelAbortsWorker ==
    [][\A e \in EntryIds :
          (ex[e].pc \notin {"none", "done"} /\ ex'[e] # ex[e]
             /\ task[ex[e].t].status = CANCELLED) =>
              task' = task /\ results' = results]_vars

\* C25: once a shutdown signal has set running to false the worker reads no
\* further entries from the stream; when it writes the "stopping" heartbeat
\* none of its submitted tasks is still executing; and when run() has
\* returned its worker key is gone.
C25_GracefulShutdown ==
    [][\A w \in Workers :
          /\ (wpc[w] = "claim" /\ wpc'[w] # "claim" /\ lastDelivered' # lastDelivered)
                => running[w]
          /\ wpc'[w] = "cleanup_delete" =>
                /\ hb'[w] = "stopping"
                /\ \A e \in EntryIds : ex[e].w = w => ex[e].pc = "done"
          /\ wpc'[w] = "stopped" => hb'[w] = "none"]_vars

\* C26: an iteration of run() whose health check fails (memory utilisation at
\* or above worker_memory_limit, or the store ping failing) claims and
\* submits nothing and leaves the worker at the head of its loop; a worker is
\* inside claim_pending_tasks or submitting only after a check that passed.
C26_HealthGate ==
    [][\A w \in Workers :
          LET failed == health'[w].memory_usage >= worker_memory_limit \/ ~health'[w].ping
              heads == /\ wpc[w] = "loop"
                       /\ running[w]
                       /\ <<hb[w], health[w], wpc[w]>> # <<hb'[w], health'[w], wpc'[w]>>
          IN  /\ (heads /\ failed) =>
                    /\ wpc'[w] = "loop"
                    /\ UNCHANGED <<task, pel, lastDelivered, claimed, batch, ex>>
              /\ wpc'[w] \in {"claim", "claim_loop", "claim_update_get", "claim_update_hset",
                              "submit"} => ~failed]_vars
C26_Witness ==
    \E w \in Workers :
        /\ wpc[w] = "loop"
        /\ hb[w] = "active"
        /\ health[w].memory_usage = worker_memory_limit
        /\ health[w].ping
        /\ lastDelivered < Len(stream)

\* C27: one claim_pending_tasks call of a worker takes at most max_threads
\* new entries, and it is made only when no task the worker submitted is
\* still executing; a worker never has more than max_threads executions of
\* _process_task under way.
C27_MaxThreads ==
    [][\A w \in Workers :
          LET executing == {e \in EntryIds : ex[e].w = w /\ ex[e].pc \notin {"none", "done"}}
              executing_next == {e \in EntryIds : ex'[e].w = w /\ ex'[e].pc \notin {"none", "done"}}
          IN  /\ (wpc[w] = "claim" /\ wpc'[w] # "claim") =>
                    /\ lastDelivered' - lastDelivered <= worker_max_threads
                    /\ Cardinality({e \in EntryIds : pel'[e] = w /\ pel[e] # w}) <= worker_max_threads
                    /\ executing = {}
              /\ Cardinality(executing_next) <= worker_max_threads]_vars
C27_Witness ==
    \E w \in Workers :
        /\ wpc[w] = "claim_loop"
        /\ Len(batch[w]) = worker_max_threads
        /\ lastDelivered < Len(stream)

\* C28: cleanup_old_tasks deletes exactly the records that are COMPLETED,
\* FAILED or CANCELLED and older than the cutoff, with their results keys,
\* and returns their number: a record is deleted only while terminal and
\* read as old, every record read terminal and old is deleted, a results key
\* goes only with its record, and the count grows by one per record deleted.
C28_CleanupOldTasks ==
    [][\A t \in TaskIds :
          /\ (task[t] # NoTask /\ task'[t] = NoTask) =>
                /\ task[t].status \in {COMPLETED, FAILED, CANCELLED}
                /\ cleanupCall.old
          /\ (results[t] /\ ~results'[t]) =>
                /\ task[t] = NoTask
                /\ cleanupCall'.returned = cleanupCall.returned + 1
          /\ (cleanupCall.pc = "hgetall" /\ cleanupCall' # cleanupCall /\ Head(cleanupCall.todo) = t) =>
                ((cleanupCall'.pc = "delete") <=>
                    (cleanupCall'.snap.status \in {COMPLETED, FAILED, CANCELLED}
                        /\ cleanupCall'.old))]_vars

\* C29: the step that ends a janitor run (the cleanup_old_tasks call that
\* _periodic_cleanup makes returns) leaves in the translation_workers group no
\* consumer whose idle time exceeds the threshold, and no step removes from
\* the group a consumer whose idle time does not exceed it.
C29_JanitorRunCollectsConsumers ==
    [][/\ (cleanupCall.pc # "none" /\ cleanupCall'.pc = "none") =>
              \A w \in Workers : consumers'[w] # "idle"
       /\ \A w \in Workers : consumers[w] = "active" => consumers'[w] # "absent"]_vars

\* C30: every record's progress lies in [0.0, 1.0] (0..10 tenths), and while
\* a task is being executed (its record is PROCESSING, up to and including
\* the write that makes it COMPLETED or FAILED) no write to the record lowers
\* its progress.
C30_ProgressMonotone ==
    [][\A t \in TaskIds :
          /\ task'[t] # NoTask => task'[t].progress \in 0..10
          /\ (task[t] # NoTask /\ task'[t] # NoTask /\ task[t].status = PROCESSING
                  /\ task'[t].status \in {PROCESSING, COMPLETED, FAILED})
             => task'[t].progress >= task[t].progress]_vars

\* C31: the write of cancel_task changes only the status of the record (to
\* CANCELLED): progress, assigned_worker, retry_count and error_message are
\* after the write what they were before it, and the stream is untouched;
\* cancel_task on an unknown id answers False and writes nothing.
C31_CancelChangesOnlyStatus ==
    [][\A a \in ApiSlots :
          /\ (api[a].pc = "cancel_hset" /\ api'[a].pc # "cancel_hset") =>
                /\ task'[api[a].t].status = CANCELLED
                /\ task'[api[a].t].progress = task[api[a].t].progress
                /\ task'[api[a].t].assigned_worker = task[api[a].t].assigned_worker
                /\ task'[api[a].t].retry_count = task[api[a].t].retry_count
                /\ task'[api[a].t].error_message = task[api[a].t].error_message
                /\ stream' = stream
          /\ (response' # response /\ response'.op = "cancel" /\ response'.ret = "False") =>
                /\ task[response'.t] = NoTask
                /\ task' = task
                /\ stream' = stream]_vars

\* C32: no write of a task record stores an updated_at earlier than the one
\* the record held, whichever writers interleave; every writer reads the
\* clock after its get_task and before its hset.
C32_UpdatedAtMonotone ==
    [][\A t \in TaskIds : updated_at'[t] >= updated_at[t]]_vars

\* C33: a task written with serialize_for_redis and read back with get_task
\* is equal to the task written, on every field.
C33_SerializeRoundTrip ==
    codec.T # NoTask => codec.read = codec.T

\* C34: a worker that is alive in its main loop and has sent a heartbeat,
\* its pool busy or not, has its worker:{id}:heartbeat key; the key is
\* missing only for a worker that is dead or has shut down.
C34_HeartbeatWhileAlive ==
    \A w \in Workers :
        (wpc[w] \notin {"init", "shutdown", "cleanup_delete", "stopped", "crashed"}
            /\ hb[w] # "none")
        => sentinel[w]

\* C35: the clean-up of old tasks runs only inside a _periodic_cleanup whose
\* create_task call found more than cleanup_interval passed since
\* last_cleanup_time and a store that answers the ping; last_cleanup_time
\* changes only when such a clean-up has returned, to the time that call
\* read; and whether the clean-up ran, was skipped or failed, create_task
\* goes on to write its PENDING record under a fresh id, append one entry for
\* it and return the id.
C35_PeriodicCleanup ==
    [][/\ (api["a1"].pc = "ret" /\ api'["a1"].pc = "cleanup") =>
              /\ periodic'.current_time - periodic.last_cleanup_time > cleanup_interval
              /\ periodic'.ping
              /\ periodic'.outcome = "ran"
       /\ (cleanupCall' # cleanupCall \/ \E t \in TaskIds : task[t] # NoTask /\ task'[t] = NoTask) =>
              \/ api["a1"].pc = "cleanup"
              \/ api["a1"].pc = "ret" /\ api'["a1"].pc \in {"cleanup", "create_hset"}
       /\ (api["a1"].pc = "ret" /\ api'["a1"].pc = "create_hset") =>
              /\ periodic'.outcome \in {"skipped", "failed"}
              /\ cleanupCall' = cleanupCall
              /\ task' = task
       /\ periodic'.last_cleanup_time # periodic.last_cleanup_time =>
              /\ api["a1"].pc = "cleanup"
              /\ cleanupCall.pc = "none"
              /\ periodic.outcome = "ran"
              /\ periodic'.last_cleanup_time = periodic.current_time
              /\ periodic'.last_cleanup_time > periodic.last_cleanup_time
       /\ (api["a1"].pc = "create_hset" /\ api'["a1"].pc = "create_xadd") =>
              /\ periodic.outcome \in {"ran", "skipped", "failed"}
              /\ task[api'["a1"].t] = NoTask
              /\ task'[api'["a1"].t] = serialize_for_redis(NewTask)
              /\ stream' = stream
       /\ (api["a1"].pc = "create_xadd" /\ api'["a1"].pc = "ret") =>
              /\ stream' = Append(stream, api["a1"].t)
              /\ task' = task
              /\ response' = Response("create", api["a1"].t, "task_id", 200)]_vars

\* A create_task call has returned its id after a clean-up that ran and
\* moved last_cleanup_time forward
C35_Witness ==
    /\ response.op = "create" /\ response.ret = "task_id"
    /\ periodic.outcome = "ran"
    /\ periodic.last_cleanup_time > 0
    /\ api["a1"].pc = "ret"

\* C36: a worker that has stopped gracefully (run() has returned through
\* _cleanup) holds no entry whose task is PROCESSING: every entry it claimed
\* was submitted, driven to a terminal state and ACKed first.
C36_ShutdownDrainsClaimed ==
    \A w \in Workers :
        wpc[w] = "stopped" =>
            \A e \in 1..Len(stream) :
                ~(pel[e] = w /\ task[stream[e]] # NoTask /\ task[stream[e]].status = PROCESSING)

\* C37: the delete of cleanup_old_tasks never removes a record that is
\* PENDING or PROCESSING when the delete runs, and an entry appended to the
\* stream names a record that exists.
C37_JanitorSparesLiveTasks ==
    [][/\ \A t \in TaskIds :
              (task[t] # NoTask /\ task'[t] = NoTask) =>
                  task[t].status \notin {PENDING, PROCESSING}
       /\ Len(stream') > Len(stream) => task'[stream'[Len(stream')]] # NoTask]_vars

\* C38: clean_dead_consumers removes from the group only consumers that hold
\* no entry in the pending list, so the pending list is the same after the
\* removal as before it.
C38_ConsumerGcKeepsPending ==
    [][\A w \in Workers :
          (consumers[w] # "absent" /\ consumers'[w] = "absent") =>
              /\ \A e \in EntryIds : pel[e] # w
              /\ pel' = pel]_vars

\* C39: every task has at most one stream entry that is not ACKed, counting
\* the entries not yet delivered and those in a consumer's pending list.
C39_OneUnackedEntryPerTask ==
    \A t \in TaskIds :
        Cardinality({e \in 1..Len(stream) :
                        stream[e] = t /\ (e > lastDelivered \/ pel[e] # None)}) <= 1

\* C9: retry_task on a FAILED task with retry_count = k below the limit
\* writes the record PENDING with retry_count = k + 1, error_message cleared
\* and progress 0.0, then appends exactly one stream entry and returns True.
C9_RetryRequeues ==
    [][\A a \in ApiSlots :
          LET t == api[a].t
              k == api[a].snap.retry_count
          IN  /\ (api[a].pc = "retry_hset" /\ api'[a].pc # "retry_hset")
                    => /\ api[a].snap.status = FAILED /\ k < task_retry_limit
                       /\ task'[t].status = PENDING
                       /\ task'[t].retry_count = k + 1
                       /\ task'[t].error_message = ""
                       /\ task'[t].progress = 0
                       /\ stream' = stream
              /\ (api[a].pc = "retry_xadd" /\ api'[a].pc # "retry_xadd")
                    => /\ stream' = Append(stream, t)
                       /\ task' = task
                       /\ response' = Response("retry", t, "True", 200)]_vars

C9_Witness ==
    /\ response = Response("retry", 1, "True", 200)
    /\ Stored(1) /\ task[1].status = PENDING /\ task[1].retry_count = 1
    /\ Len(stream) = 2

\* C10: retry_task on a task that is absent, not FAILED, or at the retry
\* limit returns failure (400 from the route) and changes neither the task
\* record nor the stream; it goes on to its writes only from a FAILED record
\* below the limit.
C10_RetryRejected ==
    [][\A a \in ApiSlots, t \in TaskIds :
          /\ (api[a].pc = "ret" /\ api'[a].pc = "retry_hset" /\ api'[a].t = t)
                => /\ Stored(t)
                   /\ task[t].status = FAILED
                   /\ task[t].retry_count < task_retry_limit
          /\ (response' # response /\ response' = Response("retry", t, "False", 400))
                => /\ task' = task
                   /\ stream' = stream]_vars

C10_Witness ==
    /\ response = Response("retry", 1, "False", 400)
    /\ Stored(1) /\ task[1].status = FAILED
    /\ task[1].retry_count >= task_retry_limit

====
